---- MODULE Spec2Model ----
(***************************************************************************)
(* bureaucrate: release bookkeeping for a cargo workspace (src/main.rs).   *)
(*                                                                         *)
(* main() builds the package graph (nested pairs, outer packages), then    *)
(* for every outer package walks the revision history, attributes commits  *)
(* to the package and hands them to the changelog generator, and finally   *)
(* runs the bump propagation loop `while bumped { ... }`.  Without         *)
(* --execute it then prints a report; with it, it rewrites the changelog   *)
(* and the manifest of the packages.                                       *)
(*                                                                         *)
(* A path is a sequence of components; Path::starts_with compares whole    *)
(* components.  A tree is the set of file paths it holds, so the deltas of *)
(* a tree-to-tree diff are the files present on one side only.  Commits    *)
(* are numbered so that every parent has a smaller number than its child   *)
(* and the number doubles as the commit time.  A text is a sequence of     *)
(* characters, with one character standing for a run of other text.        *)
(***************************************************************************)
EXTENDS Integers, Sequences, FiniteSets, TLC

\* ---------------------------------------------------------------- bounds
NumPkgs == 3
NumCommits == 3

\* Longest changelog file found on disk, in characters.
MaxLen == 4

\* Workspace-relative source directories a package may have: the workspace
\* root, two top-level directories and one directory below the first.
Dirs == { <<>>, <<1>>, <<1, 1>>, <<2>> }

\* Files a tree may hold: one below directory 1, one below directory 2.
Files == { <<1, 0>>, <<2, 0>> }

\* Changelog texts a generator may return.
Changelogs == { "", "notes" }

\* Characters of a file: "m" is the text <!-- bureaucrate goes here -->,
\* "h" a heading ## [v..] date, "x" any other run of text without white
\* space.
Chars == { "m", "\n", "x" }

\* line 26
COMMENT_START == << "m", "\n" >>

\* ------------------------------------------------------------ Bump (bump.rs)
BumpNone == 0
BumpPatch == 1
BumpMinor == 2
BumpMajor == 3
Bump == BumpNone .. BumpMajor

Bump_from_raw(raw) == raw

Pkgs == 1 .. NumPkgs
Commits == 1 .. NumCommits

\* The propagation loop is followed for this many passes at most.
MaxPasses == 3 * NumPkgs + 2

VARIABLES
    dirs,          \* package -> workspace_path()
    deps,          \* <<d, p>>: d directly depends on p
    parents,       \* commit -> set of parent commits
    tree,          \* commit -> set of files in its tree
    since,         \* opts.since_rev(): a commit, or 0 for --root
    generator,     \* opts.generator: the verdicts the script may return
    nested,        \* ids of packages found inside another package
    nested_pairs,  \* sequence of <<outer, inner>>
    statuses,      \* package -> PackageStatus
    pc,            \* position of main()
    pkg,           \* package of the current iteration of the outers loop
    walk,          \* revisions the revwalk has still to yield
    commits,       \* commits attributed to pkg so far
    calls,         \* invocations of gen.commit_handler so far
    bumped,        \* the loop flag
    passes,        \* passes of the propagation loop started so far
    pi,            \* index into nested_pairs
    di,            \* 1: (a, b) = (outer, inner); 2: (a, b) = (inner, outer)
    id,            \* package of the outer dependency loop
    dependent,     \* package of the inner dependency loop
    execute,       \* opts.execute
    disk,          \* package -> text of its CHANGELOG.md
    written,       \* files this run has written
    unread,        \* packages whose CHANGELOG.md could not be read
    wp,            \* package of the current iteration of a write loop
    again          \* the propagation loop has been started a second time

vars == << dirs, deps, parents, tree, since, generator, nested, nested_pairs, statuses,
           pc, pkg, walk, commits, calls, bumped, passes, pi, di, id,
           dependent, execute, disk, written, unread, wp, again >>

\* ------------------------------------------------------------ graph build
\* Path::starts_with: base is a component-wise prefix of path.
StartsWith(path, base) ==
    /\ Len(base) <= Len(path)
    /\ SubSeq(path, 1, Len(base)) = base

\* The k-th (outer, inner) combination of the two nested loops over
\* workspace.packages(Forward), outer loop first.
OuterAt(k) == ((k - 1) \div NumPkgs) + 1
InnerAt(k) == ((k - 1) % NumPkgs) + 1

\* Variant: the filter inner != outer is missing.
IsNestedIn_NoFilter(d, inner, outer) == StartsWith(d[inner], d[outer])

IsNestedIn(d, inner, outer) ==
    /\ inner # outer
    /\ StartsWith(d[inner], d[outer])

RECURSIVE NestedPairsFrom(_, _)
NestedPairsFrom(d, k) ==
    IF k > NumPkgs * NumPkgs THEN << >>
    ELSE IF IsNestedIn(d, InnerAt(k), OuterAt(k))
         THEN << << OuterAt(k), InnerAt(k) >> >> \o NestedPairsFrom(d, k + 1)
         ELSE NestedPairsFrom(d, k + 1)

NestedPairs(d) == NestedPairsFrom(d, 1)

NestedIds(pairs) == { pairs[k][2] : k \in 1 .. Len(pairs) }

\* Variant: the filter keeps every package.
Outers_All == Pkgs

\* workspace.filter(Forward, |c| !nested.contains(c.id()))
Outers == { p \in Pkgs : p \notin nested }

InitialStatus == [ changelog |-> "", bump |-> BumpNone, bump_reasons |-> << >> ]

\* ---------------------------------------------------------------- revwalk
RECURSIVE Reachable(_, _)
Reachable(par, c) == {c} \cup UNION { Reachable(par, p) : p \in par[c] }

\* push_head: HEAD is the newest commit.
HeadCommit == NumCommits

\* Variant: only the boundary commit itself is hidden.
Hidden_OnlyTip(par, hide) == IF hide = 0 THEN {} ELSE {hide}

\* walk.hide(hide)
Hidden(par, hide) == IF hide = 0 THEN {} ELSE Reachable(par, hide)

SetMax(S) == CHOOSE x \in S : \A y \in S : y <= x

RECURSIVE Descending(_)
Descending(S) ==
    IF S = {} THEN << >>
    ELSE << SetMax(S) >> \o Descending(S \ {SetMax(S)})

\* push_head, hide, Sort::TOPOLOGICAL | Sort::TIME
Revwalk(par, hide) == Descending(Reachable(par, HeadCommit) \ Hidden(par, hide))

\* Variant: only the new paths of the deltas are looked at.
DeltaPaths_NewOnly(parent, commit) == tree[commit] \ tree[parent]

\* Paths of the deltas of diff_tree_to_tree(parent, commit), old and new.
DeltaPaths(parent, commit) ==
    (tree[parent] \ tree[commit]) \cup (tree[commit] \ tree[parent])

\* The `changed` flag after the loop over commit.parents().
Changed(commit, pkgdir) ==
    \E parent \in parents[commit] :
        \E file \in DeltaPaths(parent, commit) : StartsWith(file, pkgdir)

\* ------------------------------------------------------------------ inputs
\* Forward order lists a package before the packages it depends on.
DepEdges == { e \in Pkgs \X Pkgs : e[1] < e[2] }

Workspaces == { d \in [Pkgs -> Dirs] : \A p, q \in Pkgs : p # q => d[p] # d[q] }

Verdicts == [ changelog : Changelogs, bump : Bump ]

\* A script that answers with no changelog and no bump, or with a changelog
\* and a minor bump.
ConventionalVerdicts ==
    { [ changelog |-> "", bump |-> BumpNone ],
      [ changelog |-> "notes", bump |-> BumpMinor ] }

\* A linear history: the root commit adds the file below directory 1, every
\* even commit adds the file below directory 2, every odd one removes it.
LinearParents == [ c \in Commits |-> IF c = 1 THEN {} ELSE {c - 1} ]
LinearTree ==
    [ c \in Commits |-> IF c % 2 = 1 THEN { <<1, 0>> } ELSE { <<1, 0>>, <<2, 0>> } ]

\* A workspace with packages at 1, 1/1 and 2 (further packages below 2),
\* where the nested package depends on the package at 2.
RECURSIVE Below(_, _)
Below(dir, n) == IF n = 0 THEN dir ELSE Below(Append(dir, 1), n - 1)
FixedDirs ==
    [ p \in Pkgs |-> IF p = 1 THEN <<1>>
                     ELSE IF p = 2 THEN <<1, 1>>
                     ELSE Below(<<2>>, p - 3) ]
FixedDeps == { <<2, 3>> } \cap DepEdges

\* A changelog file with the marker and one earlier entry.
KeptChangelog == COMMENT_START \o << "x", "\n" >>

Histories == { par \in [Commits -> SUBSET Commits] :
                 \A c \in Commits : \A p \in par[c] : p < c }

\* ------------------------------------------------------------------- Init
\* lines 83-131: statuses, nested, nested_pairs, outers and hide are built.
Built ==
    /\ nested_pairs = NestedPairs(dirs)
    /\ nested = NestedIds(NestedPairs(dirs))
    /\ statuses = [ p \in Pkgs |-> InitialStatus ]
    /\ pc = "pkg"
    /\ pkg = 0
    /\ walk = << >>
    /\ commits = << >>
    /\ calls = << >>
    /\ bumped = TRUE
    /\ passes = 0
    /\ pi = 1
    /\ di = 1
    /\ id = 1
    /\ dependent = 1
    /\ written = {}
    /\ unread = {}
    /\ wp = 1
    /\ again = FALSE

\* Any workspace over one history.
Init ==
    /\ dirs \in Workspaces
    /\ deps \in SUBSET DepEdges
    /\ parents = LinearParents
    /\ tree = LinearTree
    /\ since = 0
    /\ generator = Verdicts
    /\ execute \in BOOLEAN
    /\ disk = [ p \in Pkgs |-> KeptChangelog ]
    /\ Built

\* Any history over one workspace.
InitScan ==
    /\ dirs = FixedDirs
    /\ deps = FixedDeps
    /\ parents \in Histories
    /\ tree \in [Commits -> SUBSET Files]
    /\ since \in 0 .. NumCommits
    /\ generator = ConventionalVerdicts
    /\ execute = FALSE
    /\ disk = [ p \in Pkgs |-> KeptChangelog ]
    /\ Built

\* Texts a changelog file may hold.
Contents == UNION { [ 1 .. n -> Chars ] : n \in 0 .. MaxLen }

\* Any text in the changelog files of one workspace over one history.
InitWrite ==
    /\ dirs = FixedDirs
    /\ deps = FixedDeps
    /\ parents = LinearParents
    /\ tree = LinearTree
    /\ since = 0
    /\ generator = ConventionalVerdicts
    /\ execute = TRUE
    /\ \E text \in Contents : disk = [ p \in Pkgs |-> text ]
    /\ Built

\* ------------------------------------------------- the loop over outers
inputs == << dirs, deps, parents, tree, since, generator, nested, nested_pairs,
            execute >>
persisted == << disk, written, unread, wp, again >>
loopvars == << bumped, passes, pi, di, id, dependent >>

LaterOuters == { p \in Outers : p > pkg }
SetMin(S) == CHOOSE x \in S : \A y \in S : x <= y

\* lines 133-158: the next outer package and its revwalk; after the last
\* one, lines 214: let mut bumped = true.
NextPackage ==
    /\ pc = "pkg"
    /\ IF LaterOuters = {}
       THEN /\ pc' = "pass"
            /\ UNCHANGED << pkg, walk, commits >>
       ELSE /\ pkg' = SetMin(LaterOuters)
            /\ walk' = Revwalk(parents, since)
            /\ commits' = << >>
            /\ pc' = "walk"
    /\ UNCHANGED << inputs, persisted, statuses, calls, loopvars >>

\* lines 159-198: one revision of the walk.
WalkCommit ==
    /\ pc = "walk"
    /\ walk # << >>
    /\ commits' = IF Changed(Head(walk), dirs[pkg])
                  THEN Append(commits, Head(walk))
                  ELSE commits
    /\ walk' = Tail(walk)
    /\ UNCHANGED << inputs, persisted, statuses, pc, pkg, calls, loopvars >>

GeneratorReason(bump) == [ kind |-> "generator", of |-> bump ]

\* Variant: the reason is pushed whatever the bump.
Seeded_AlwaysReason(status, verdict) ==
    [ changelog |-> verdict.changelog,
      bump |-> Bump_from_raw(verdict.bump),
      bump_reasons |->
          Append(status.bump_reasons, GeneratorReason(Bump_from_raw(verdict.bump))) ]

Seeded(status, verdict) ==
    [ changelog |-> verdict.changelog,
      bump |-> Bump_from_raw(verdict.bump),
      bump_reasons |->
          IF Bump_from_raw(verdict.bump) > BumpNone
          THEN Append(status.bump_reasons, GeneratorReason(Bump_from_raw(verdict.bump)))
          ELSE status.bump_reasons ]

\* lines 200-211: the generator's verdict seeds the package's status.
Classify ==
    /\ pc = "walk"
    /\ walk = << >>
    /\ \E verdict \in generator :
          /\ statuses' = [ statuses EXCEPT ![pkg] = Seeded(statuses[pkg], verdict) ]
          /\ calls' = Append(calls, [ package |-> pkg, commits |-> commits,
                                      verdict |-> verdict ])
    /\ pc' = "pkg"
    /\ UNCHANGED << inputs, persisted, pkg, walk, commits, loopvars >>

\* ------------------------------------------------- the propagation loop
\* line 215-216: while bumped { bumped = false; ... }
WhileBumped ==
    /\ pc = "pass"
    /\ IF bumped
       THEN /\ passes < MaxPasses
            /\ bumped' = FALSE
            /\ passes' = passes + 1
            /\ pi' = 1
            /\ di' = 1
            /\ id' = 1
            /\ dependent' = 1
            /\ pc' = IF nested_pairs = << >> THEN "deps" ELSE "nested"
       ELSE /\ pc' = "done"
            /\ UNCHANGED loopvars
    /\ UNCHANGED << inputs, persisted, statuses, pkg, walk, commits, calls >>

NestedReason == [ kind |-> "nested", of |-> 0 ]

\* Variant: both directions take the outer package as a.
PairA_OuterOnly(pair, d) == pair[1]

\* line 218: (a, b) in [(outer, inner), (inner, outer)]
PairA(pair, d) == IF d = 1 THEN pair[1] ELSE pair[2]
PairB(pair, d) == IF d = 1 THEN pair[2] ELSE pair[1]

\* line 221: the status the rule updates, statuses.get_mut(inner)
NestedTarget(pair, d) == pair[2]

\* lines 219-226
NestedRaised(st, pair, d) ==
    [ st EXCEPT ![NestedTarget(pair, d)] =
        [ @ EXCEPT !.bump_reasons = Append(@, NestedReason),
                   !.bump = st[PairA(pair, d)].bump ] ]

NestedStep ==
    /\ pc = "nested"
    /\ LET pair == nested_pairs[pi]
       IN  IF statuses[PairB(pair, di)].bump < statuses[PairA(pair, di)].bump
           THEN /\ statuses' = NestedRaised(statuses, pair, di)
                /\ bumped' = TRUE
           ELSE UNCHANGED << statuses, bumped >>
    /\ IF di = 1
       THEN /\ di' = 2
            /\ UNCHANGED << pi, pc >>
       ELSE /\ di' = 1
            /\ pi' = pi + 1
            /\ pc' = IF pi = Len(nested_pairs) THEN "deps" ELSE "nested"
    /\ UNCHANGED << inputs, persisted, pkg, walk, commits, calls, passes, id, dependent >>

DependencyReason(p) == [ kind |-> "dependency", of |-> p ]

\* metadata.directly_depends_on(&dependent, &id)
DirectlyDependsOn(d, p) == << d, p >> \in deps

\* Variant: the dependent takes over the bump of its dependency.
DependentRaised_Copy(st, d, p) ==
    [ st EXCEPT ![d] =
        [ @ EXCEPT !.bump_reasons = Append(@, DependencyReason(p)),
                   !.bump = st[p].bump ] ]

\* lines 241-245
DependentRaised(st, d, p) ==
    [ st EXCEPT ![d] =
        [ @ EXCEPT !.bump_reasons = Append(@, DependencyReason(p)),
                   !.bump = BumpPatch ] ]

\* Variant: every package is skipped.
DependentSkipped_Always(st, d, p) == TRUE

\* Variant: the test of old_bump is missing.
DependentSkipped_NoOldBump(st, d, p) == ~DirectlyDependsOn(d, p)

\* Variant: the test of directly_depends_on is missing.
DependentSkipped_NoEdge(st, d, p) == st[d].bump >= BumpPatch

\* lines 234-240: the dependent is skipped
DependentSkipped(st, d, p) ==
    \/ ~DirectlyDependsOn(d, p)
    \/ st[d].bump >= BumpPatch

\* Variant: the raise leaves the flag as it was.
BumpedAfterRaise_Kept(flag) == flag

\* line 246: bumped = true
BumpedAfterRaise(flag) == TRUE

\* lines 229-248: one (id, dependent) combination; an id whose bump is None
\* is left at once.
DepStep ==
    /\ pc = "deps"
    /\ IF dependent = 1 /\ statuses[id].bump = BumpNone
       THEN /\ UNCHANGED << statuses, bumped >>
            /\ id' = id + 1
            /\ dependent' = 1
            /\ pc' = IF id = NumPkgs THEN "pass" ELSE "deps"
       ELSE /\ IF DependentSkipped(statuses, dependent, id)
               THEN UNCHANGED << statuses, bumped >>
               ELSE /\ statuses' = DependentRaised(statuses, dependent, id)
                    /\ bumped' = BumpedAfterRaise(bumped)
            /\ IF dependent = NumPkgs
               THEN /\ id' = id + 1
                    /\ dependent' = 1
                    /\ pc' = IF id = NumPkgs THEN "pass" ELSE "deps"
               ELSE /\ dependent' = dependent + 1
                    /\ UNCHANGED << id, pc >>
    /\ UNCHANGED << inputs, persisted, pkg, walk, commits, calls, passes, pi, di >>

\* ------------------------------------------------- report and files
\* Variant: the report branch is never taken.
DryRun_Never(exec) == FALSE

\* line 251: if !opts.execute
DryRun(exec) == ~exec

\* lines 251-306: the report is printed and main returns, or the write
\* loops begin.
Finish ==
    /\ pc = "done"
    /\ pc' = IF DryRun(execute) THEN "reported" ELSE "changelogs"
    /\ wp' = 1
    /\ UNCHANGED << inputs, statuses, pkg, walk, commits, calls, loopvars,
                    disk, written, unread, again >>

\* char::is_whitespace
IsWhitespace(ch) == ch = "\n"

RECURSIVE TrimStart(_)
TrimStart(text) ==
    IF text # << >> /\ IsWhitespace(Head(text)) THEN TrimStart(Tail(text)) ELSE text

RECURSIVE TrimEnd(_)
TrimEnd(text) ==
    IF text # << >> /\ IsWhitespace(text[Len(text)])
    THEN TrimEnd(SubSeq(text, 1, Len(text) - 1))
    ELSE text

\* str::trim
Trim(text) == TrimEnd(TrimStart(text))

\* Byte offsets at which the pattern occurs in the text.
Offsets(text, pattern) ==
    { o \in 0 .. Len(text) - Len(pattern) :
        SubSeq(text, o + 1, o + Len(pattern)) = pattern }

\* str::find: the first offset, or None (here -1).
Find(text, pattern) ==
    IF Offsets(text, pattern) = {} THEN -1
    ELSE CHOOSE o \in Offsets(text, pattern) :
            \A q \in Offsets(text, pattern) : o <= q

\* The lines of package.changelog.trim(), one line of text for "notes".
ChangelogLines(changelog) == IF changelog = "" THEN << >> ELSE << << "x" >> >>

RECURSIVE WriteLines(_)
WriteLines(lines) ==
    IF lines = << >> THEN << >>
    ELSE Head(lines) \o << "\n" >> \o WriteLines(Tail(lines))

\* lines 330-343: the heading, the lines and an empty line.
Entry(changelog) ==
    << "h", "\n", "\n" >> \o WriteLines(ChangelogLines(changelog)) \o << "\n" >>

\* lines 320-328: what is kept in front of the entry, and what follows it.
KeptBefore(old) ==
    IF Find(old, COMMENT_START) # -1
    THEN SubSeq(old, 1, Find(old, COMMENT_START) + Len(COMMENT_START))
    ELSE COMMENT_START

KeptAfter(old) ==
    IF Find(old, COMMENT_START) # -1
    THEN SubSeq(old, Find(old, COMMENT_START) + Len(COMMENT_START) + 1, Len(old))
    ELSE old

\* lines 318-346: the text handed to fs::write
NewChangelog(old, changelog) ==
    Trim(KeptBefore(old) \o Entry(changelog) \o KeptAfter(old))

\* line 317: fs::read_to_string(&changelog_path).unwrap_or_default()
ReadOrDefault(read_ok, text) == IF read_ok THEN text ELSE << >>

ChangelogFile(p) == << "CHANGELOG.md", p >>
ManifestFile(p) == << "Cargo.toml", p >>

\* lines 308-347: one package of the changelog loop.  The read and the
\* write each succeed or fail; a failed write returns the error.
ChangelogStep ==
    /\ pc = "changelogs"
    /\ IF statuses[wp].changelog = ""
       THEN /\ UNCHANGED << disk, written, unread >>
            /\ wp' = IF wp = NumPkgs THEN 1 ELSE wp + 1
            /\ pc' = IF wp = NumPkgs THEN "manifests" ELSE "changelogs"
       ELSE \E read_ok, write_ok \in BOOLEAN :
            /\ unread' = IF read_ok THEN unread ELSE unread \cup {wp}
            /\ IF write_ok
               THEN /\ disk' = [ disk EXCEPT ![wp] =
                                   NewChangelog(ReadOrDefault(read_ok, disk[wp]),
                                                statuses[wp].changelog) ]
                    /\ written' = written \cup { ChangelogFile(wp) }
                    /\ wp' = IF wp = NumPkgs THEN 1 ELSE wp + 1
                    /\ pc' = IF wp = NumPkgs THEN "manifests" ELSE "changelogs"
               ELSE /\ pc' = "aborted"
                    /\ UNCHANGED << disk, written, wp >>
    /\ UNCHANGED << inputs, statuses, pkg, walk, commits, calls, loopvars, again >>

\* lines 348-364: one package of the manifest loop; a failed read or write
\* returns the error.
ManifestStep ==
    /\ pc = "manifests"
    /\ \E read_ok, write_ok \in BOOLEAN :
          IF read_ok /\ write_ok
          THEN /\ written' = written \cup { ManifestFile(wp) }
               /\ wp' = IF wp = NumPkgs THEN 1 ELSE wp + 1
               /\ pc' = IF wp = NumPkgs THEN "ok" ELSE "manifests"
          ELSE /\ pc' = "aborted"
               /\ UNCHANGED << written, wp >>
    /\ UNCHANGED << inputs, statuses, pkg, walk, commits, calls, loopvars,
                    disk, unread, again >>

\* lines 214-215 entered once more, on the status map the loop has left.
RunAgain ==
    /\ pc = "done"
    /\ ~again
    /\ again' = TRUE
    /\ bumped' = TRUE
    /\ passes' = 0
    /\ pc' = "pass"
    /\ UNCHANGED << inputs, statuses, pkg, walk, commits, calls, pi, di, id,
                    dependent, disk, written, unread, wp >>

\* ---------------------------------------------------------- specifications
NextScan == NextPackage \/ WalkCommit \/ Classify

Next ==
    \/ NextPackage \/ WalkCommit \/ Classify
    \/ WhileBumped \/ NestedStep \/ DepStep
    \/ Finish \/ ChangelogStep \/ ManifestStep

\* The whole of main(), over any workspace.
Spec == Init /\ [][Next]_vars

\* The loop over the outer packages, over any history.
SpecScan == InitScan /\ [][NextScan]_vars

\* The whole of main() with --execute, over any text of the changelog files.
SpecWrite == InitWrite /\ [][Next]_vars

InitAgain == Init /\ ~execute

NextAgain ==
    \/ NextPackage \/ WalkCommit \/ Classify
    \/ WhileBumped \/ NestedStep \/ DepStep
    \/ RunAgain

\* main() up to the end of the propagation loop, and the loop once more.
SpecAgain == InitAgain /\ [][NextAgain]_vars

\* ------------------------------------------------------------ propagation
InLoop == pc \in { "pass", "nested", "deps" }

PairIndexes == 1 .. Len(nested_pairs)

InNestedPair(p) ==
    \E k \in PairIndexes : p = nested_pairs[k][1] \/ p = nested_pairs[k][2]

HasReason(p, kind) ==
    \E k \in 1 .. Len(statuses[p].bump_reasons) :
        statuses[p].bump_reasons[k].kind = kind

\* The bump the generator's verdict gave the package: a verdict above None
\* leaves the generator's reason as the first reason of the package.
SeededBump(p) ==
    IF HasReason(p, "generator") THEN statuses[p].bump_reasons[1].of ELSE BumpNone

\* C1: the propagation loop reaches a pass that changes nothing after at
\* most 3 * (number of packages) passes, so it never starts more than that
\* many passes and the closing one, also when an inner package's bump is
\* above its outer package's bump at the start of a pass.
C1_TerminatesWithin3N == passes <= 3 * NumPkgs + 1

\* C2: when the nested rule finds bump(b) < bump(a) for a nested pair, in
\* either direction, it is b, the package with the lesser bump, that is
\* raised to bump(a) and that receives the nested reason.
C2_NestedRuleSymmetric ==
    [][ (pc = "nested"
         /\ statuses[PairB(nested_pairs[pi], di)].bump
              < statuses[PairA(nested_pairs[pi], di)].bump)
        => /\ statuses'[PairB(nested_pairs[pi], di)].bump
                = statuses[PairA(nested_pairs[pi], di)].bump
           /\ statuses'[PairB(nested_pairs[pi], di)].bump_reasons
                = Append(statuses[PairB(nested_pairs[pi], di)].bump_reasons,
                         NestedReason) ]_vars

\* C3: once the propagation loop has exited, the two packages of every
\* nested pair have the same bump.
C3_NestedEqualAtExit ==
    pc = "done" =>
        \A k \in PairIndexes :
            statuses[nested_pairs[k][1]].bump = statuses[nested_pairs[k][2]].bump

C3_Witness ==
    /\ pc = "done"
    /\ \E k \in PairIndexes :
          /\ statuses[nested_pairs[k][1]].bump > BumpNone
          /\ statuses[nested_pairs[k][2]].bump = statuses[nested_pairs[k][1]].bump
          /\ HasReason(nested_pairs[k][2], "nested")

\* C4: once the propagation loop has exited, every package that directly
\* depends on a package with a bump above None has a bump of at least Patch.
C4_DependentsAtLeastPatchAtExit ==
    pc = "done" =>
        \A d, p \in Pkgs :
            (DirectlyDependsOn(d, p) /\ statuses[p].bump > BumpNone)
                => statuses[d].bump >= BumpPatch

C4_Witness ==
    /\ pc = "done"
    /\ \E d, p \in Pkgs :
          /\ DirectlyDependsOn(d, p)
          /\ statuses[p].bump = BumpMinor
          /\ statuses[d].bump = BumpPatch
          /\ statuses[d].bump_reasons = << DependencyReason(p) >>

\* C5: from the start of the propagation loop on, no step lowers the bump
\* of any package.
C5_BumpNeverLowered ==
    [][ InLoop => \A p \in Pkgs : statuses'[p].bump >= statuses[p].bump ]_vars

C5_Witness ==
    /\ InLoop
    /\ \E p, q \in Pkgs :
          /\ HasReason(p, "nested")
          /\ HasReason(q, "dependency")
          /\ statuses[p].bump > BumpPatch

\* C6: a step of the dependency rule changes a package only when its bump
\* is below Patch, and then sets it to exactly Patch; so a package seeded
\* with None that is in no nested pair leaves the loop with at most Patch,
\* whatever the bumps of the packages it depends on.
C6_DependencyRuleOnlyPatch ==
    [][ /\ pc = "deps" =>
            \A p \in Pkgs :
                statuses'[p] # statuses[p] =>
                    /\ statuses[p].bump < BumpPatch
                    /\ statuses'[p].bump = BumpPatch
        /\ pc' = "done" =>
            \A p \in Pkgs :
                (SeededBump(p)' = BumpNone /\ ~InNestedPair(p)')
                    => statuses'[p].bump <= BumpPatch ]_vars

C6_Witness ==
    /\ pc = "done"
    /\ \E d, p \in Pkgs :
          /\ DirectlyDependsOn(d, p)
          /\ ~InNestedPair(d)
          /\ SeededBump(d) = BumpNone
          /\ statuses[d].bump = BumpPatch
          /\ statuses[p].bump = BumpMajor

\* ------------------------------------------------------------ attribution
CallIndexes == 1 .. Len(calls)

Count(c, list) == Cardinality({ k \in 1 .. Len(list) : list[k] = c })

\* The commit is visited by the walk: reachable from HEAD and, when a
\* boundary is given, not reachable from the boundary.
Visited(c) ==
    /\ c \in Reachable(parents, HeadCommit)
    /\ since # 0 => c \notin Reachable(parents, since)

\* Some file below the package's directory differs between the commit and
\* one of its parents.
TouchesUnder(c, p) ==
    \E parent \in parents[c] : \E f \in Files :
        /\ (f \in tree[c]) # (f \in tree[parent])
        /\ StartsWith(f, dirs[p])

\* C7: for every scanned package and every commit the walk visits, the
\* commit is in the package's commit list exactly once if it changes a file
\* below the package's directory relative to one of its parents, and not at
\* all otherwise; each package is judged on its own.
C7_AttributedExactlyOnce ==
    \A k \in CallIndexes : \A c \in Commits :
        Visited(c) =>
            Count(c, calls[k].commits)
                = IF TouchesUnder(c, calls[k].package) THEN 1 ELSE 0

C7_Witness ==
    /\ Len(calls) = 2
    /\ \E c, e \in Commits :
          /\ Cardinality(parents[c]) = 2
          /\ Count(c, calls[1].commits) = 1
          /\ Count(c, calls[2].commits) = 1
          /\ Visited(e)
          /\ Count(e, calls[1].commits) = 0
          /\ Count(e, calls[2].commits) = 1

\* C8: without a boundary revision, a root commit that holds a file below a
\* package's directory is in that package's commit list.
C8_RootCommitAttributed ==
    since = 0 =>
        \A k \in CallIndexes : \A c \in Commits :
            ( /\ Visited(c)
              /\ parents[c] = {}
              /\ \E f \in tree[c] : StartsWith(f, dirs[calls[k].package]) )
                => Count(c, calls[k].commits) >= 1

\* C9: with a boundary revision, neither the boundary commit nor any of its
\* ancestors is in any package's commit list, also when a merge commit has
\* parents on both sides of the boundary.
C9_BoundaryExcluded ==
    since # 0 =>
        \A k \in CallIndexes : \A c \in Reachable(parents, since) :
            Count(c, calls[k].commits) = 0

C9_Witness ==
    /\ since # 0
    /\ \E k \in CallIndexes : \E m \in Commits :
          /\ Count(m, calls[k].commits) = 1
          /\ \E h, v \in parents[m] :
                /\ h \in Reachable(parents, since)
                /\ v \notin Reachable(parents, since)
                /\ Count(v, calls[k].commits) = 1

\* The package is the inner package of no nested pair.
NotNested(p) == \A k \in PairIndexes : nested_pairs[k][2] # p

Classified(p) == \E k \in CallIndexes : calls[k].package = p

\* The commits of the list keep the order in which the walk yields them.
InWalkOrder(list) ==
    \A i, j \in 1 .. Len(list) :
        i < j =>
            \E m, n \in 1 .. Len(Revwalk(parents, since)) :
                /\ m < n
                /\ Revwalk(parents, since)[m] = list[i]
                /\ Revwalk(parents, since)[n] = list[j]

\* C10: the generator is invoked once for every package that is not nested
\* and never for a nested one, with the package's commits in the order of
\* the walk; while a package is being attributed, every earlier outer
\* package has been classified and no later one has.
C10_OneCallPerOuterInOrder ==
    /\ \A k \in CallIndexes :
          /\ NotNested(calls[k].package)
          /\ InWalkOrder(calls[k].commits)
          /\ \A j \in CallIndexes : j # k => calls[j].package # calls[k].package
    /\ pc = "pass" => \A p \in Pkgs : NotNested(p) => Classified(p)
    /\ pc = "walk" =>
          \A p \in Pkgs :
              Classified(p) <=> (NotNested(p) /\ p < pkg)

C10_Witness ==
    /\ pc = "pass"
    /\ Len(calls) = 2
    /\ Len(calls[1].commits) = 2
    /\ Len(calls[2].commits) = 1
    /\ \E p \in Pkgs : ~NotNested(p)

\* ------------------------------------------------------------------ files
\* C11: a file is written only with --execute, after every outer package
\* has been classified and the propagation loop has ended with a pass that
\* changed nothing; without --execute no file is ever written.
C11_WritesOnlyAfterConvergence ==
    [][ /\ written' # written =>
            /\ execute
            /\ ~InLoop
            /\ ~bumped
            /\ passes >= 1
            /\ \A p \in Pkgs : NotNested(p) => Classified(p)
        /\ ~execute => written' = {} ]_vars

C11_Witness ==
    /\ pc = "ok"
    /\ \E p, q \in Pkgs :
          /\ ChangelogFile(p) \in written
          /\ ManifestFile(p) \in written
          /\ ChangelogFile(q) \notin written
          /\ ManifestFile(q) \in written
          /\ statuses[q].bump > BumpNone

\* C12: a run that ends with an error has written no changelog and no
\* manifest.
C12_AbortLeavesFilesUntouched == pc = "aborted" => written = {}

\* C13: with --execute, a changelog file that cannot be read is not
\* written, and the run does not end successfully.
C13_UnreadableChangelogIsFatal ==
    /\ \A p \in unread : ChangelogFile(p) \notin written
    /\ pc = "ok" => unread = {}

\* The new entry, with or without the blank lines that end it.
EntryTexts(changelog) ==
    { SubSeq(Entry(changelog), 1, k) : k \in Len(TrimEnd(Entry(changelog))) .. Len(Entry(changelog)) }

\* C14: when the old text holds the marker and has been read, the text
\* written is the old text up to and including the marker, the new entry,
\* and the old text after the marker, each unchanged, also when the old
\* text begins or ends with white space.
C14_InsertionKeepsOldText ==
    [][ ( /\ pc = "changelogs"
          /\ ChangelogFile(wp) \in written' \ written
          /\ wp \notin unread'
          /\ Offsets(disk[wp], COMMENT_START) # {} )
        => \E o \in Offsets(disk[wp], COMMENT_START) :
              \E entry \in EntryTexts(statuses[wp].changelog) :
                  disk'[wp] =
                      SubSeq(disk[wp], 1, o + Len(COMMENT_START))
                      \o entry
                      \o SubSeq(disk[wp], o + Len(COMMENT_START) + 1, Len(disk[wp])) ]_vars

\* ------------------------------------------------------------ graph build
\* The inner directory lies strictly below the outer one.
StrictSubPath(inner, outer) ==
    /\ Len(outer) < Len(inner)
    /\ \A k \in 1 .. Len(outer) : inner[k] = outer[k]

PairSet == { nested_pairs[k] : k \in PairIndexes }

\* C15: the nested pairs are exactly the ordered pairs (outer, inner) of
\* distinct packages with inner's directory strictly below outer's, each
\* once, so no package is paired with itself and no two packages contain
\* each other; the outer set is exactly the packages that are the inner of
\* no pair; and every nested package lies in some package of the outer set.
C15_GraphBuild ==
    /\ PairSet = { e \in Pkgs \X Pkgs :
                     e[1] # e[2] /\ StrictSubPath(dirs[e[2]], dirs[e[1]]) }
    /\ Cardinality(PairSet) = Len(nested_pairs)
    /\ \A e \in PairSet : e[1] # e[2] /\ << e[2], e[1] >> \notin PairSet
    /\ Outers = { p \in Pkgs : \A e \in PairSet : e[2] # p }
    /\ \A p \in Pkgs \ Outers : \E o \in Outers : << o, p >> \in PairSet

C15_Witness ==
    \E o, m, i \in Pkgs :
        /\ { << o, m >>, << m, i >>, << o, i >> } \subseteq PairSet
        /\ Outers = { o }

\* ---------------------------------------------------------------- seeding
BeforePropagation == pc \in { "pkg", "walk" } \/ (pc = "pass" /\ passes = 0)

VerdictFor(p) == calls[CHOOSE k \in CallIndexes : calls[k].package = p].verdict

\* C16: until propagation begins, a classified package has the verdict's
\* changelog and bump, with one generator reason if that bump is above None
\* and no reason otherwise; a package that was not classified has bump None,
\* an empty changelog and no reason.
C16_SeededFromVerdict ==
    BeforePropagation =>
        \A p \in Pkgs :
            IF Classified(p)
            THEN /\ statuses[p].changelog = VerdictFor(p).changelog
                 /\ statuses[p].bump = VerdictFor(p).bump
                 /\ IF VerdictFor(p).bump > BumpNone
                    THEN /\ Len(statuses[p].bump_reasons) = 1
                         /\ statuses[p].bump_reasons[1].kind = "generator"
                    ELSE statuses[p].bump_reasons = << >>
            ELSE /\ statuses[p].changelog = ""
                 /\ statuses[p].bump = BumpNone
                 /\ statuses[p].bump_reasons = << >>

C16_Witness ==
    /\ pc = "pass"
    /\ passes = 0
    /\ \E p, q, r \in Pkgs :
          /\ Classified(p) /\ statuses[p].bump = BumpMajor
          /\ Classified(q) /\ statuses[q].bump = BumpNone
          /\ statuses[q].changelog = "notes"
          /\ ~Classified(r)

\* ------------------------------------------------------------ idempotence
\* C17: the propagation loop started on the status map a converged run has
\* left makes one pass, in which no bump changes and no reason is appended,
\* and exits.
C17_PropagationIdempotent ==
    [][ again => /\ statuses' = statuses
                 /\ passes' <= 1
                 /\ (passes = 1 => ~bumped') ]_vars

C17_Witness ==
    /\ again
    /\ pc = "done"
    /\ passes = 1
    /\ \E p, q \in Pkgs :
          /\ HasReason(p, "nested")
          /\ HasReason(q, "dependency")

\* ---------------------------------------------------------------- reasons
Raised(p) == statuses'[p].bump > statuses[p].bump

\* The reason the rule at work records.
RuleReason == IF pc = "nested" THEN NestedReason ELSE DependencyReason(id)

\* C18: in the propagation loop the reasons of a package change only in a
\* step that strictly raises the bump of that package; such a step appends
\* exactly one reason, the one of the rule at work; and a step that raises
\* no bump changes no reason and does not set the flag that asks for
\* another pass.
C18_ReasonOnlyWithRaise ==
    [][ InLoop =>
          /\ \A p \in Pkgs :
                /\ statuses'[p].bump_reasons # statuses[p].bump_reasons
                      => Raised(p)
                /\ Raised(p)
                      => statuses'[p].bump_reasons
                            = Append(statuses[p].bump_reasons, RuleReason)
          /\ (\A p \in Pkgs : ~Raised(p))
                => /\ statuses' = statuses
                   /\ ~(bumped' /\ ~bumped) ]_vars

\* ------------------------------------------------------------ the result
Seeds == [ p \in Pkgs |-> SeededBump(p) ]

Partners(p) == { q \in Pkgs : << p, q >> \in PairSet \/ << q, p >> \in PairSet }

\* One application of both rules to every package at once, from the bumps b.
Close(b) ==
    [ p \in Pkgs |->
        SetMax({ b[p] } \cup { b[q] : q \in Partners(p) }
               \cup { BumpPatch : q \in { r \in Pkgs : DirectlyDependsOn(p, r)
                                                       /\ b[r] > BumpNone } }) ]

RECURSIVE Closure(_)
\* The least bumps above b that both rules leave alone; no order enters.
Closure(b) == IF Close(b) = b THEN b ELSE Closure(Close(b))

\* C19: the bumps a converged run ends with are a function of the workspace
\* and of the seeded bumps alone: whatever the order in which the packages
\* and the nested pairs are visited, every package ends with the bump that
\* the closure of the seeds under the two rules gives it, so two runs that
\* differ only in that order end with the same bumps.
C19_ResultIndependentOfOrder ==
    pc = "done" => \A p \in Pkgs : statuses[p].bump = Closure(Seeds)[p]

C19_Witness ==
    /\ pc = "done"
    /\ passes >= 3
    /\ \E p, q, r \in Pkgs :
          /\ HasReason(p, "nested")
          /\ HasReason(q, "dependency")
          /\ statuses[r].bump = BumpMajor

\* C20: after convergence a package has a bump above None only if it was
\* seeded above None, or a nested partner ends above None, or a package it
\* directly depends on ends above None; it has a bump above Patch only if
\* it was seeded with that bump or a nested partner ends with that bump;
\* and a package with no partner and no dependency ending above None keeps
\* its seeded bump and has no reason from either rule.
C20_NoSpuriousBump ==
    pc = "done" =>
        \A p \in Pkgs :
            LET byPartner == \E q \in Partners(p) : statuses[q].bump > BumpNone
                byDependency == \E q \in Pkgs : /\ DirectlyDependsOn(p, q)
                                                /\ statuses[q].bump > BumpNone
            IN  /\ statuses[p].bump > BumpNone
                     => SeededBump(p) > BumpNone \/ byPartner \/ byDependency
                /\ statuses[p].bump > BumpPatch
                     => \/ SeededBump(p) = statuses[p].bump
                        \/ \E q \in Partners(p) :
                               statuses[q].bump = statuses[p].bump
                /\ (~byPartner /\ ~byDependency)
                     => /\ statuses[p].bump = SeededBump(p)
                        /\ ~HasReason(p, "nested")
                        /\ ~HasReason(p, "dependency")

C20_Witness ==
    /\ pc = "done"
    /\ \E p, q, r \in Pkgs :
          /\ q \in Partners(p)
          /\ statuses[p].bump = BumpNone
          /\ statuses[p].bump_reasons = << >>
          /\ statuses[q].bump = BumpNone
          /\ statuses[q].bump_reasons = << >>
          /\ DirectlyDependsOn(r, p)
          /\ statuses[r].bump = BumpMajor

====
